---- MODULE Spec2Model ----
(***************************************************************************)
(* Model of metric-trainer: the category selector, the value generator,    *)
(* the question engine, the grader, the statistics aggregator              *)
(* (src/src/questions.c) and the menu / practice-session loop              *)
(* (src/src/main.c).                                                       *)
(*                                                                         *)
(* float values are modelled as exact rationals [n |-> numerator,          *)
(* d |-> denominator] kept in lowest terms with d > 0.  The two IEEE       *)
(* results of a division by zero are NaN and PosInf, the two values with   *)
(* d = 0.                                                                  *)
(***************************************************************************)
EXTENDS Integers, Sequences, FiniteSets, TLC

(* ------------------------------ bounds -------------------------------- *)

\* rand() returns a value in 0..RandMax; stands for RAND_MAX of the C library
RandMax == 19

\* questions asked per practice session
MaxQuestions == 2

\* length of the category string typed at the menu
MaxInputLen == 3

\* calls of update_stats in StatsSpec
MaxRecorded == 4

(* ------------------------- rational arithmetic ------------------------ *)

Abs(x) == IF x < 0 THEN -x ELSE x

Sign(x) == IF x < 0 THEN -1 ELSE 1

RECURSIVE GCD(_, _)
GCD(a, b) == IF b = 0 THEN a ELSE GCD(b, a % b)

Rat(n, d) ==
    LET g == GCD(Abs(n), d)
    IN  [n |-> Sign(n) * (Abs(n) \div g), d |-> d \div g]

Whole(k) == [n |-> k, d |-> 1]

RNeg(x) == [n |-> -x.n, d |-> x.d]

RAdd(x, y) ==
    LET g == GCD(x.d, y.d)
    IN  Rat(x.n * (y.d \div g) + y.n * (x.d \div g), (x.d \div g) * y.d)

RSub(x, y) == RAdd(x, RNeg(y))

RMul(x, y) ==
    LET g1 == GCD(Abs(x.n), y.d)
        g2 == GCD(Abs(y.n), x.d)
    IN  [n |-> (x.n \div g1) * (y.n \div g2),
         d |-> (x.d \div g2) * (y.d \div g1)]

\* x / y for y # 0
RDiv(x, y) == RMul(x, [n |-> Sign(y.n) * y.d, d |-> Abs(y.n)])

\* floor(x) and the numerator of x - floor(x)
Floor(x) == x.n \div x.d
Frac(x) == x.n % x.d

\* x < y: by the integer parts, then by the fractions over a common denominator
RLess(x, y) ==
    LET g == GCD(x.d, y.d)
    IN  \/ Floor(x) < Floor(y)
        \/ /\ Floor(x) = Floor(y)
           /\ Frac(x) * (y.d \div g) < Frac(y) * (x.d \div g)

RLeq(x, y) == ~RLess(y, x)

\* fabsf
fabsf(x) == [n |-> Abs(x.n), d |-> x.d]

\* roundf: nearest integer, halfway cases away from zero
roundf(x) ==
    LET q == Abs(x.n) \div x.d
        r == Abs(x.n) % x.d
    IN  Whole(Sign(x.n) * (IF r >= x.d - r THEN q + 1 ELSE q))

\* (int)x: truncation toward zero
IntCast(x) == Sign(x.n) * (Abs(x.n) \div x.d)

\* a / b of C on int: truncation toward zero
CDiv(a, b) == Sign(a) * Sign(b) * (Abs(a) \div Abs(b))

RECURSIVE Pow10(_)
Pow10(k) == IF k = 0 THEN 1 ELSE 10 * Pow10(k - 1)

round_to_precision(value, decimal_places) ==
    LET multiplier == Whole(Pow10(decimal_places))
    IN  RDiv(roundf(RMul(value, multiplier)), multiplier)

(* --------------------------- questions.h ------------------------------- *)

CATEGORY_DISTANCE == 0
CATEGORY_WEIGHT == 1
CATEGORY_TEMPERATURE == 2
CATEGORY_VOLUME == 3
CATEGORY_COUNT == 4
MAX_CONVERSIONS_PER_CATEGORY == 8

Categories == 0 .. (CATEGORY_COUNT - 1)

(* ---------------------- unit conversion functions --------------------- *)

miles_to_km(miles) == RMul(miles, Rat(1609344, 1000000))
km_to_miles(km) == RDiv(km, Rat(1609344, 1000000))
inches_to_cm(inches) == RMul(inches, Rat(254, 100))
cm_to_inches(cm) == RDiv(cm, Rat(254, 100))
feet_to_meters(feet) == RMul(feet, Rat(3048, 10000))
meters_to_feet(meters) == RDiv(meters, Rat(3048, 10000))
pounds_to_kg(pounds) == RMul(pounds, Rat(453592, 1000000))
kg_to_pounds(kg) == RDiv(kg, Rat(453592, 1000000))
ounces_to_grams(ounces) == RMul(ounces, Rat(283495, 10000))
grams_to_ounces(grams) == RDiv(grams, Rat(283495, 10000))
fahrenheit_to_celsius(fahrenheit) ==
    RDiv(RMul(RSub(fahrenheit, Whole(32)), Whole(5)), Whole(9))
celsius_to_fahrenheit(celsius) ==
    RAdd(RDiv(RMul(celsius, Whole(9)), Whole(5)), Whole(32))
celsius_to_kelvin(celsius) == RAdd(celsius, Rat(27315, 100))
kelvin_to_celsius(kelvin) == RSub(kelvin, Rat(27315, 100))
gallons_to_liters(gallons) == RMul(gallons, Rat(378541, 100000))
liters_to_gallons(liters) == RDiv(liters, Rat(378541, 100000))
cups_to_ml(cups) == RMul(cups, Rat(236588, 1000))
ml_to_cups(ml) == RDiv(ml, Rat(236588, 1000))
liters_to_fl_oz(liters) == RMul(liters, Rat(33814, 1000))
fl_oz_to_liters(fl_oz) == RDiv(fl_oz, Rat(33814, 1000))
ml_to_fl_oz(ml) == RDiv(ml, Rat(295735, 10000))
fl_oz_to_ml(fl_oz) == RMul(fl_oz, Rat(295735, 10000))

\* the call conv->convert_func(value) through the function pointer
convert_func(conv, value) ==
    CASE conv.convert_func = "miles_to_km" -> miles_to_km(value)
      [] conv.convert_func = "km_to_miles" -> km_to_miles(value)
      [] conv.convert_func = "inches_to_cm" -> inches_to_cm(value)
      [] conv.convert_func = "cm_to_inches" -> cm_to_inches(value)
      [] conv.convert_func = "feet_to_meters" -> feet_to_meters(value)
      [] conv.convert_func = "meters_to_feet" -> meters_to_feet(value)
      [] conv.convert_func = "pounds_to_kg" -> pounds_to_kg(value)
      [] conv.convert_func = "kg_to_pounds" -> kg_to_pounds(value)
      [] conv.convert_func = "ounces_to_grams" -> ounces_to_grams(value)
      [] conv.convert_func = "grams_to_ounces" -> grams_to_ounces(value)
      [] conv.convert_func = "fahrenheit_to_celsius" -> fahrenheit_to_celsius(value)
      [] conv.convert_func = "celsius_to_fahrenheit" -> celsius_to_fahrenheit(value)
      [] conv.convert_func = "celsius_to_kelvin" -> celsius_to_kelvin(value)
      [] conv.convert_func = "kelvin_to_celsius" -> kelvin_to_celsius(value)
      [] conv.convert_func = "gallons_to_liters" -> gallons_to_liters(value)
      [] conv.convert_func = "liters_to_gallons" -> liters_to_gallons(value)
      [] conv.convert_func = "cups_to_ml" -> cups_to_ml(value)
      [] conv.convert_func = "ml_to_cups" -> ml_to_cups(value)
      [] conv.convert_func = "liters_to_fl_oz" -> liters_to_fl_oz(value)
      [] conv.convert_func = "fl_oz_to_liters" -> fl_oz_to_liters(value)
      [] conv.convert_func = "ml_to_fl_oz" -> ml_to_fl_oz(value)
      [] conv.convert_func = "fl_oz_to_ml" -> fl_oz_to_ml(value)

(* -------------------------- conversion catalog ------------------------ *)

ConversionInfo(from, to, func, min, max, tol) ==
    [from_unit |-> from, to_unit |-> to, convert_func |-> func,
     min_value |-> min, max_value |-> max, tolerance_percent |-> tol]

distance_conversions ==
    << ConversionInfo("miles", "kilometers", "miles_to_km", Whole(1), Whole(100), Whole(2)),
       ConversionInfo("kilometers", "miles", "km_to_miles", Whole(1), Whole(160), Whole(2)),
       ConversionInfo("inches", "centimeters", "inches_to_cm", Whole(1), Whole(36), Rat(15, 10)),
       ConversionInfo("centimeters", "inches", "cm_to_inches", Whole(1), Whole(90), Rat(15, 10)),
       ConversionInfo("feet", "meters", "feet_to_meters", Whole(1), Whole(50), Whole(2)),
       ConversionInfo("meters", "feet", "meters_to_feet", Whole(1), Whole(15), Whole(2)) >>

weight_conversions ==
    << ConversionInfo("pounds", "kilograms", "pounds_to_kg", Whole(1), Whole(200), Whole(2)),
       ConversionInfo("kilograms", "pounds", "kg_to_pounds", Whole(1), Whole(90), Whole(2)),
       ConversionInfo("ounces", "grams", "ounces_to_grams", Whole(1), Whole(32), Rat(15, 10)),
       ConversionInfo("grams", "ounces", "grams_to_ounces", Whole(1), Whole(900), Rat(15, 10)) >>

temperature_conversions ==
    << ConversionInfo("degrees Fahrenheit", "degrees Celsius", "fahrenheit_to_celsius",
                      Whole(0), Whole(100), Rat(15, 10)),
       ConversionInfo("degrees Celsius", "degrees Fahrenheit", "celsius_to_fahrenheit",
                      Whole(-20), Whole(40), Rat(15, 10)),
       ConversionInfo("degrees Celsius", "Kelvin", "celsius_to_kelvin",
                      Whole(-50), Whole(50), Whole(1)),
       ConversionInfo("Kelvin", "degrees Celsius", "kelvin_to_celsius",
                      Whole(200), Whole(350), Whole(1)) >>

volume_conversions ==
    << ConversionInfo("gallons", "liters", "gallons_to_liters", Whole(1), Whole(20), Whole(2)),
       ConversionInfo("liters", "gallons", "liters_to_gallons", Whole(1), Whole(75), Whole(2)),
       ConversionInfo("cups", "milliliters", "cups_to_ml", Rat(5, 10), Whole(8), Rat(15, 10)),
       ConversionInfo("milliliters", "cups", "ml_to_cups", Whole(100), Whole(2000), Rat(15, 10)),
       ConversionInfo("liters", "fluid ounces", "liters_to_fl_oz", Whole(1), Whole(3), Whole(2)),
       ConversionInfo("fluid ounces", "liters", "fl_oz_to_liters", Whole(8), Whole(50), Whole(2)),
       ConversionInfo("milliliters", "fluid ounces", "ml_to_fl_oz", Whole(200), Whole(1000), Whole(2)),
       ConversionInfo("fluid ounces", "milliliters", "fl_oz_to_ml", Whole(4), Whole(16), Whole(2)) >>

\* the array returned together with *count (here: Len of the sequence)
get_conversions_for_category(category) ==
    CASE category = CATEGORY_DISTANCE -> distance_conversions
      [] category = CATEGORY_WEIGHT -> weight_conversions
      [] category = CATEGORY_TEMPERATURE -> temperature_conversions
      [] category = CATEGORY_VOLUME -> volume_conversions
      [] OTHER -> << >>

(* ------------------------------- state --------------------------------- *)

VARIABLES
    pc,                    \* position of the program, see Init and the actions
    g_whole_numbers_mode,  \* main.c global flag
    g_easy_mode,           \* main.c global flag
    feof_stdin,            \* end-of-file indicator of stdin
    selection,             \* category_selection_t selection of main
    parse_result,          \* value returned by the last parse_category_input, FALSE before
    stats,                 \* session_stats_t stats of run_practice_session
    continue_session,      \* local of run_practice_session
    questions_asked,       \* local of run_practice_session
    question,              \* question_t question of the current loop iteration
    user_answer,           \* float user_answer handed to check_answer
    line_kind,             \* kind of the line get_numeric_answer read in this iteration
    answer_result,         \* int answer_result of the current iteration
    correct,               \* bool correct of the current iteration
    grade,                 \* what check_answer computed and printed for user_answer
    summary_count,         \* calls of print_session_summary in the current session
    parse_input,           \* input of the parse_category_input call of SelectorSpec
    picked_category        \* value returned by the pick_random_category call of SelectorSpec

vars == << pc, g_whole_numbers_mode, g_easy_mode, feof_stdin, selection, parse_result,
           stats, continue_session, questions_asked, question, user_answer,
           line_kind, answer_result, correct, grade, summary_count,
           parse_input, picked_category >>

(* --------------------------- category selector ------------------------ *)

init_categories ==
    [active |-> [i \in Categories |-> FALSE], num_active |-> 0]

\* a case of the switch that counts the category again when it is active already
Activate_CountAgain(sel, c) ==
    [active |-> [sel.active EXCEPT ![c] = TRUE], num_active |-> sel.num_active + 1]

\* one case of the switch: activate category c unless it is active already
Activate(sel, c) ==
    IF ~sel.active[c]
    THEN [active |-> [sel.active EXCEPT ![c] = TRUE], num_active |-> sel.num_active + 1]
    ELSE sel

\* the for loop passing over characters that select no category
RECURSIVE ParseChars_SkipOthers(_, _, _)
ParseChars_SkipOthers(input, i, sel) ==
    IF i > Len(input)
    THEN [result |-> sel.num_active > 0, selection |-> sel]
    ELSE CASE input[i] = "a" -> ParseChars_SkipOthers(input, i + 1, Activate(sel, CATEGORY_DISTANCE))
           [] input[i] = "b" -> ParseChars_SkipOthers(input, i + 1, Activate(sel, CATEGORY_WEIGHT))
           [] input[i] = "c" -> ParseChars_SkipOthers(input, i + 1, Activate(sel, CATEGORY_TEMPERATURE))
           [] input[i] = "d" -> ParseChars_SkipOthers(input, i + 1, Activate(sel, CATEGORY_VOLUME))
           [] OTHER -> ParseChars_SkipOthers(input, i + 1, sel)

\* the for loop of parse_category_input from index i on
RECURSIVE ParseChars(_, _, _)
ParseChars(input, i, sel) ==
    IF i > Len(input)
    THEN [result |-> sel.num_active > 0, selection |-> sel]
    ELSE CASE input[i] = "a" -> ParseChars(input, i + 1, Activate(sel, CATEGORY_DISTANCE))
           [] input[i] = "b" -> ParseChars(input, i + 1, Activate(sel, CATEGORY_WEIGHT))
           [] input[i] = "c" -> ParseChars(input, i + 1, Activate(sel, CATEGORY_TEMPERATURE))
           [] input[i] = "d" -> ParseChars(input, i + 1, Activate(sel, CATEGORY_VOLUME))
           [] OTHER -> [result |-> FALSE, selection |-> sel]

\* returns the bool result and the selection left in *selection
parse_category_input(input) ==
    IF input = << >>
    THEN [result |-> FALSE, selection |-> init_categories]
    ELSE IF input = << "a", "l", "l" >>
    THEN [result |-> TRUE,
          selection |-> [active |-> [i \in Categories |-> TRUE],
                         num_active |-> CATEGORY_COUNT]]
    ELSE ParseChars(input, 1, init_categories)

\* active_categories[] filled by the loop over i = from .. CATEGORY_COUNT - 1
RECURSIVE ActiveCategories(_, _)
ActiveCategories(sel, from) ==
    IF from >= CATEGORY_COUNT THEN << >>
    ELSE IF sel.active[from] THEN << from >> \o ActiveCategories(sel, from + 1)
    ELSE ActiveCategories(sel, from + 1)

\* a draw over all four categories
pick_random_category_AnyCategory(sel, rnd) == rnd % CATEGORY_COUNT

\* rnd is the value rand() returns
pick_random_category(sel, rnd) ==
    IF sel.num_active = 0
    THEN CATEGORY_DISTANCE
    ELSE LET active_categories == ActiveCategories(sel, 0)
             count == Len(active_categories)
             random_index == rnd % count
         IN  active_categories[random_index + 1]

(* ---------------------------- value generator ------------------------- *)

\* the whole-numbers step cutting the fraction off, without the bounds tests
WholeNumbersStep_Truncate(whole_numbers_mode, result, min, max) ==
    IF whole_numbers_mode THEN Whole(IntCast(result)) ELSE result

\* lines 280-285: the whole-numbers step
WholeNumbersStep(whole_numbers_mode, result, min, max) ==
    IF whole_numbers_mode
    THEN LET r1 == roundf(result)
             r2 == IF RLess(r1, min) THEN roundf(min) ELSE r1
             r3 == IF RLess(max, r2) THEN roundf(max) ELSE r2
         IN  r3
    ELSE result

\* the nearest multiple of 5 without the special cases for small values
EasyMap_NearestMultiple(result, min) == Whole(CDiv(IntCast(result) + 2, 5) * 5)

\* lines 289-299: 1 or the nearest multiple of 5
EasyMap(result, min) ==
    LET int_result == IntCast(result)
    IN  IF int_result <= 2 /\ RLeq(min, Whole(1))
        THEN Whole(1)
        ELSE LET m == CDiv(int_result + 2, 5) * 5
                 multiple_of_5 == IF m < 5 THEN 5 ELSE m
             IN  Whole(multiple_of_5)

\* lines 302-309: the lower bound
EasyClampMin(result, min) ==
    IF RLess(result, min)
    THEN IF RLeq(min, Whole(1))
         THEN Whole(1)
         ELSE Whole(CDiv(IntCast(RAdd(min, Whole(4))), 5) * 5)
    ELSE result

\* the upper bound left unchecked
EasyClampMax_Unclamped(result, max) == result

\* lines 310-318: the upper bound
EasyClampMax(result, max) ==
    IF RLess(max, result)
    THEN IF RLeq(Whole(1), max) /\ CDiv(IntCast(max), 5) * 5 < 1
         THEN Whole(1)
         ELSE LET down == Whole(CDiv(IntCast(max), 5) * 5)
              IN  IF RLess(down, Whole(1)) /\ RLeq(Whole(1), max) THEN Whole(1) ELSE down
    ELSE result

\* lines 288-319: the easy-mode step
EasyStep(easy_mode, result, min, max) ==
    IF easy_mode
    THEN EasyClampMax(EasyClampMin(EasyMap(result, min), min), max)
    ELSE result

\* whole_numbers_mode and easy_mode are the globals g_whole_numbers_mode and
\* g_easy_mode the function reads; rnd is the value rand() returns
generate_random_value(whole_numbers_mode, easy_mode, min, max, rnd) ==
    IF RLeq(max, min)
    THEN min
    ELSE LET range == RSub(max, min)
             random_fraction == Rat(rnd, RandMax)
             result == RAdd(min, RMul(random_fraction, range))
         IN  EasyStep(easy_mode,
                      WholeNumbersStep(whole_numbers_mode, result, min, max), min, max)

(* ---------------------------- question engine ------------------------- *)

NoCategoriesText == "Error: No categories selected"
NoConversionsText == "Error: No conversions available"

\* question_t q = {0}
ZeroQuestion ==
    [category |-> 0, from_unit |-> "", to_unit |-> "", value |-> Whole(0),
     correct_answer |-> Whole(0), question_text |-> "", tolerance |-> Whole(0)]

\* the tolerance without its floor
Tolerance_NoFloor(answer, conv) == RMul(answer, RDiv(conv.tolerance_percent, Whole(100)))

\* lines 120-122
Tolerance(answer, conv) ==
    LET tolerance == RMul(answer, RDiv(conv.tolerance_percent, Whole(100)))
    IN  IF RLess(tolerance, Rat(1, 10)) THEN Rat(1, 10) ELSE tolerance

\* the answer computed from the value rounded to a whole number, while the
\* value shown keeps 1 decimal place
FillQuestion_ConvertWhole(whole_numbers_mode, easy_mode, chosen_category, conv, r3) ==
    LET drawn == generate_random_value(whole_numbers_mode, easy_mode,
                                       conv.min_value, conv.max_value, r3)
        answer == round_to_precision(convert_func(conv, round_to_precision(drawn, 0)), 2)
    IN  [category |-> chosen_category,
         from_unit |-> conv.from_unit,
         to_unit |-> conv.to_unit,
         value |-> round_to_precision(drawn, 1),
         correct_answer |-> answer,
         question_text |-> "Convert",
         tolerance |-> Tolerance(answer, conv)]

\* lines 112-130: the question built from conversion conv of chosen_category
\* when the third rand() call returns r3
FillQuestion(whole_numbers_mode, easy_mode, chosen_category, conv, r3) ==
    LET value == round_to_precision(
                     generate_random_value(whole_numbers_mode, easy_mode,
                                           conv.min_value, conv.max_value, r3), 1)
        answer == round_to_precision(convert_func(conv, value), 2)
    IN  [category |-> chosen_category,
         from_unit |-> conv.from_unit,
         to_unit |-> conv.to_unit,
         value |-> value,
         correct_answer |-> answer,
         question_text |-> "Convert",
         tolerance |-> Tolerance(answer, conv)]

\* FillQuestion for every mode, conversion and draw, computed once
QuestionTable ==
    [w \in BOOLEAN, e \in BOOLEAN, c \in Categories,
     i \in 1 .. MAX_CONVERSIONS_PER_CATEGORY, r \in 0 .. RandMax |->
        IF i <= Len(get_conversions_for_category(c))
        THEN FillQuestion(w, e, c, get_conversions_for_category(c)[i], r)
        ELSE ZeroQuestion]

\* r1, r2, r3 are the values of the three rand() calls, in call order
generate_question(sel, r1, r2, r3) ==
    IF sel.num_active = 0
    THEN [ZeroQuestion EXCEPT !.question_text = NoCategoriesText]
    ELSE LET chosen_category == pick_random_category(sel, r1)
             conversion_count == Len(get_conversions_for_category(chosen_category))
         IN  IF conversion_count = 0
             THEN [ZeroQuestion EXCEPT !.question_text = NoConversionsText]
             ELSE LET conversion_index == r2 % conversion_count
                  IN  QuestionTable[g_whole_numbers_mode, g_easy_mode, chosen_category,
                                    conversion_index + 1, r3]

\* the test for the sentinel question left out
IsErrorText_Never(text) == FALSE

\* strstr(question.question_text, "Error:") != NULL
IsErrorText(text) == text \in {NoCategoriesText, NoConversionsText}

(* -------------------------------- grader ------------------------------ *)

NaN == [n |-> 0, d |-> 0]
PosInf == [n |-> 1, d |-> 0]

\* (difference / correct_answer) * 100.0f; IEEE 754 gives NaN for 0/0 and
\* +infinity for x/0 with x > 0 (correct_answer is +0.0 when it is zero)
PercentError(difference, correct_answer) ==
    IF correct_answer.n = 0
    THEN IF difference.n = 0 THEN NaN ELSE PosInf
    ELSE RMul(RDiv(difference, correct_answer), Whole(100))

\* percent_error < bound as float comparison: false for NaN and for +infinity
PeLess(percent_error, bound) ==
    IF percent_error.d = 0 THEN FALSE ELSE RLess(percent_error, Whole(bound))

\* percent_error > bound: false for NaN, true for +infinity
PeGreater(percent_error, bound) ==
    IF percent_error.d = 0 THEN percent_error.n > 0
    ELSE RLess(Whole(bound), percent_error)

\* the bands without the inversion hint
Feedback_NoInversion(percent_error) ==
    IF PeLess(percent_error, 10) THEN "very close"
    ELSE IF PeLess(percent_error, 50) THEN "right ballpark"
    ELSE "quite different"

\* lines 181-189: the hint printed for an incorrect answer
Feedback(percent_error) ==
    IF PeLess(percent_error, 10) THEN "very close"
    ELSE IF PeLess(percent_error, 50) THEN "right ballpark"
    ELSE IF PeGreater(percent_error, 90) /\ PeLess(percent_error, 110) THEN "wrong direction"
    ELSE "quite different"

\* the tolerance boundary excluded
IsCorrect_Strict(q, answer) ==
    LET difference == fabsf(RSub(answer, q.correct_answer))
    IN  RLess(difference, q.tolerance)

\* lines 161-162
IsCorrect(q, answer) ==
    LET difference == fabsf(RSub(answer, q.correct_answer))
    IN  RLeq(difference, q.tolerance)

\* the value returned (is_correct) and what is computed and printed on the way
check_answer(q, answer) ==
    LET difference == fabsf(RSub(answer, q.correct_answer))
        is_correct == IsCorrect(q, answer)
        percent_error == PercentError(difference, q.correct_answer)
    IN  [is_correct |-> is_correct,
         percent_error |-> percent_error,
         feedback |-> IF is_correct THEN "correct" ELSE Feedback(percent_error)]

(* ------------------------- statistics aggregator ---------------------- *)

\* session_stats_t stats = {0}
ZeroStats ==
    [total_questions |-> 0, correct_answers |-> 0,
     category_totals |-> [i \in Categories |-> 0],
     category_correct |-> [i \in Categories |-> 0]]

\* the per-category correct counter incremented whatever the outcome
update_stats_CorrectAlways(st, q, was_correct) ==
    [total_questions |-> st.total_questions + 1,
     correct_answers |-> IF was_correct THEN st.correct_answers + 1 ELSE st.correct_answers,
     category_totals |-> [st.category_totals EXCEPT ![q.category] = @ + 1],
     category_correct |-> [st.category_correct EXCEPT ![q.category] = @ + 1]]

\* update_stats without the counters of the question's category
update_stats_TotalsOnly(st, q, was_correct) ==
    [st EXCEPT !.total_questions = @ + 1,
               !.correct_answers = IF was_correct THEN @ + 1 ELSE @]

\* was_correct is the parameter "correct"
update_stats(st, q, was_correct) ==
    [total_questions |-> st.total_questions + 1,
     correct_answers |-> IF was_correct THEN st.correct_answers + 1 ELSE st.correct_answers,
     category_totals |-> [st.category_totals EXCEPT ![q.category] = @ + 1],
     category_correct |-> IF was_correct
                          THEN [st.category_correct EXCEPT ![q.category] = @ + 1]
                          ELSE st.category_correct]

\* (float)a / b * 100.0f; NaN for 0/0 and +infinity for a/0 with a > 0
Percentage(a, b) ==
    IF b = 0 THEN (IF a = 0 THEN NaN ELSE PosInf) ELSE RMul(Rat(a, b), Whole(100))

\* the summary with every percentage computed, whatever the totals
print_session_summary_Unguarded(st) ==
    [no_data |-> FALSE,
     overall |-> << Percentage(st.correct_answers, st.total_questions) >>,
     breakdown |-> [i \in Categories |->
                       Percentage(st.category_correct[i], st.category_totals[i])]]

\* what print_session_summary prints: no_data for "No questions answered this
\* session.", overall for the overall percentage when it is computed, and
\* breakdown for the percentage of each category that gets a line
print_session_summary(st) ==
    IF st.total_questions > 0
    THEN [no_data |-> FALSE,
          overall |-> << Percentage(st.correct_answers, st.total_questions) >>,
          breakdown |-> [i \in {c \in Categories : st.category_totals[c] > 0} |->
                            Percentage(st.category_correct[i], st.category_totals[i])]]
    ELSE [no_data |-> TRUE,
          overall |-> << >>,
          breakdown |-> [i \in {} |-> NaN]]

(* ------------------------------- input --------------------------------- *)

\* what check_answer leaves when it has not been called
NoGrade == [is_correct |-> FALSE, percent_error |-> Whole(0), feedback |-> "none"]

\* characters typed at the menu
Alphabet == {"a", "b", "c", "d", "l", "x", "A", " "}

RECURSIVE StringsUpTo(_)
StringsUpTo(k) ==
    IF k = 0 THEN {<< >>}
    ELSE LET shorter == StringsUpTo(k - 1)
         IN  shorter \cup {Append(t, ch) : t \in {u \in shorter : Len(u) = k - 1}, ch \in Alphabet}

Quit == << "q", "u", "i", "t" >>
Exit == << "e", "x", "i", "t" >>
Help == << "h", "e", "l", "p" >>
All == << "a", "l", "l" >>

\* a line of stdin read by get_user_input: kind "eof" (fgets returns NULL at end of
\* file), "too_long" (buffer full, no newline), or "text" with the characters typed;
\* at_eof: the line ended at end of file instead of a newline
MenuLines ==
    {[kind |-> "eof", text |-> << >>, at_eof |-> TRUE]}
    \cup {[kind |-> "too_long", text |-> << >>, at_eof |-> e] : e \in BOOLEAN}
    \cup {[kind |-> "text", text |-> t, at_eof |-> e] :
            t \in StringsUpTo(MaxInputLen) \cup {Quit, Exit, Help, All}, e \in BOOLEAN}

\* main.c trim_whitespace: drop leading and trailing blanks
RECURSIVE trim_whitespace(_)
trim_whitespace(str) ==
    IF str = << >> THEN str
    ELSE IF Head(str) = " " THEN trim_whitespace(Tail(str))
    ELSE IF str[Len(str)] = " " THEN trim_whitespace(SubSeq(str, 1, Len(str) - 1))
    ELSE str

\* main.c lines 254-258
ToLower(str) == [i \in 1 .. Len(str) |-> IF str[i] = "A" THEN "a" ELSE str[i]]

\* the numbers a user may type for question q: the correct answer, the edges of
\* the tolerance band, just outside of it, zero, and twice the answer
Epsilon == Rat(1, 1000)

UserAnswers(q) ==
    { q.correct_answer,
      RAdd(q.correct_answer, q.tolerance),
      RSub(q.correct_answer, q.tolerance),
      RAdd(RAdd(q.correct_answer, q.tolerance), Epsilon),
      RSub(RSub(q.correct_answer, q.tolerance), Epsilon),
      Whole(0),
      RMul(q.correct_answer, Whole(2)) }

\* a line of stdin read by get_numeric_answer: kind "eof" (fgets returns NULL at end
\* of file), "error" (fgets returns NULL on a read error), "too_long", "empty"
\* (blank), "quit", "exit", "skip", "invalid" (no number), "number" (value);
\* at_eof: the line ended at end of file instead of a newline
AnswerLines(q) ==
    {[kind |-> k, value |-> Whole(0), at_eof |-> FALSE] : k \in {"eof", "error"}}
    \cup {[kind |-> k, value |-> Whole(0), at_eof |-> e] :
            k \in {"too_long", "empty", "quit", "exit", "skip", "invalid"}, e \in BOOLEAN}
    \cup {[kind |-> "number", value |-> v, at_eof |-> e] : v \in UserAnswers(q), e \in BOOLEAN}

\* feof(stdin) after the line was read
FeofAfter(line) ==
    IF line.kind = "eof" THEN TRUE
    ELSE IF line.kind = "error" THEN feof_stdin
    ELSE line.at_eof

\* "skip" taken for a number
get_numeric_answer_SkipIsNumber(line) ==
    IF line.kind \in {"quit", "exit"} THEN -1
    ELSE IF line.kind \in {"number", "skip"} THEN 1
    ELSE 0

\* "quit" and "exit" handled like "skip"
get_numeric_answer_QuitIsSkip(line) ==
    IF line.kind = "number" THEN 1 ELSE 0

\* the value get_numeric_answer returns for the line read
get_numeric_answer(line) ==
    IF line.kind \in {"eof", "error"} THEN 0
    ELSE IF line.kind = "too_long" THEN 0
    ELSE IF line.kind = "empty" THEN 0
    ELSE IF line.kind \in {"quit", "exit"} THEN -1
    ELSE IF line.kind = "skip" THEN 0
    ELSE IF line.kind = "invalid" THEN 0
    ELSE 1

(* ------------------------------ the program --------------------------- *)

Init ==
    /\ pc = "start"
    /\ g_whole_numbers_mode = FALSE
    /\ g_easy_mode = FALSE
    /\ feof_stdin = FALSE
    /\ selection = init_categories
    /\ parse_result = FALSE
    /\ stats = ZeroStats
    /\ continue_session = TRUE
    /\ questions_asked = 0
    /\ question = ZeroQuestion
    /\ user_answer = Whole(0)
    /\ line_kind = "none"
    /\ answer_result = 0
    /\ correct = FALSE
    /\ grade = NoGrade
    /\ summary_count = 0
    /\ parse_input = << >>
    /\ picked_category = CATEGORY_COUNT

\* main.c lines 201-233: the command line; option is the one argument given
main_args(option) ==
    /\ pc = "start"
    /\ UNCHANGED << parse_input, picked_category >>
    /\ pc' = IF option \in {"-h", "-v", "-x"} THEN "exit" ELSE "menu"
    /\ g_whole_numbers_mode' = (option \in {"-w", "-e"})
    /\ g_easy_mode' = (option = "-e")
    /\ UNCHANGED << feof_stdin, selection, parse_result, stats, continue_session,
                    questions_asked, question, user_answer, line_kind, answer_result,
                    correct, grade, summary_count >>

\* run_practice_session lines 105-108: the locals of a new session
SessionStart ==
    /\ stats' = ZeroStats
    /\ continue_session' = TRUE
    /\ questions_asked' = 0
    /\ summary_count' = 0

\* main.c lines 235-347: one pass of the menu loop on the line read
MenuPass(line) ==
    /\ feof_stdin => line.kind = "eof"
    /\ UNCHANGED << parse_input, picked_category >>
    /\ feof_stdin' = (line.at_eof \/ feof_stdin)
    /\ UNCHANGED << g_whole_numbers_mode, g_easy_mode, question, user_answer,
                    line_kind, answer_result, correct, grade >>
    /\ IF line.kind = "eof"
       THEN /\ pc' = "exit"
            /\ UNCHANGED << selection, parse_result, stats, continue_session,
                            questions_asked, summary_count >>
       ELSE IF line.kind = "too_long"
       THEN /\ pc' = IF line.at_eof THEN "exit" ELSE "menu"
            /\ UNCHANGED << selection, parse_result, stats, continue_session,
                            questions_asked, summary_count >>
       ELSE LET user_input == ToLower(trim_whitespace(line.text))
            IN  IF user_input \in {Quit, Exit}
                THEN /\ pc' = "exit"
                     /\ UNCHANGED << selection, parse_result, stats, continue_session,
                                     questions_asked, summary_count >>
                ELSE IF user_input \in {Help, << "h" >>, << "?" >>}
                THEN /\ pc' = "menu"
                     /\ UNCHANGED << selection, parse_result, stats, continue_session,
                                     questions_asked, summary_count >>
                ELSE LET parsed == parse_category_input(user_input)
                     IN  /\ selection' = parsed.selection
                         /\ parse_result' = parsed.result
                         /\ IF parsed.result
                            THEN /\ pc' = "generate"
                                 /\ SessionStart
                            ELSE /\ pc' = "menu"
                                 /\ UNCHANGED << stats, continue_session, questions_asked,
                                                 summary_count >>

\* the questions generate_question returns once chosen_category is picked, over
\* the values of the second and third rand() calls; computed once
CategoryQuestions ==
    [w \in BOOLEAN, e \in BOOLEAN, c \in Categories |->
        LET conversion_count == Len(get_conversions_for_category(c))
        IN  IF conversion_count = 0
            THEN {[ZeroQuestion EXCEPT !.question_text = NoConversionsText]}
            ELSE {QuestionTable[w, e, c, (r2 % conversion_count) + 1, r3] :
                      r2 \in 0 .. RandMax, r3 \in 0 .. RandMax}]

\* the questions generate_question(sel) can return, over the values the three
\* rand() calls can return: {generate_question(sel, r1, r2, r3)} for all r1, r2, r3
GeneratedQuestions(sel) ==
    IF sel.num_active = 0
    THEN {[ZeroQuestion EXCEPT !.question_text = NoCategoriesText]}
    ELSE UNION {CategoryQuestions[g_whole_numbers_mode, g_easy_mode,
                                  pick_random_category(sel, r1)] : r1 \in 0 .. RandMax}

main_menu ==
    /\ pc = "menu"
    /\ \E line \in MenuLines : MenuPass(line)

\* run_practice_session lines 118-129: the next question is generated and shown
session_generate ==
    /\ pc = "generate"
    /\ UNCHANGED << parse_input, picked_category >>
    /\ questions_asked < MaxQuestions
    /\ \E q \in GeneratedQuestions(selection) :
           /\ question' = q
           /\ IF IsErrorText(q.question_text)
              THEN /\ pc' = "summary"
                   /\ UNCHANGED questions_asked
              ELSE /\ pc' = "prompt"
                   /\ questions_asked' = questions_asked + 1
    /\ line_kind' = "none"
    /\ answer_result' = 0
    /\ correct' = FALSE
    /\ UNCHANGED << g_whole_numbers_mode, g_easy_mode, feof_stdin, selection, parse_result,
                    stats, continue_session, user_answer, grade, summary_count >>

\* run_practice_session lines 132-154: the answer line is read and handled, up to
\* the test of the while condition
AnswerPass(line) ==
    /\ feof_stdin => line.kind = "eof"
    /\ UNCHANGED << parse_input, picked_category >>
    /\ LET result == get_numeric_answer(line)
           eof == FeofAfter(line)
           is_correct == check_answer(question, line.value).is_correct
           go_on == IF result = 1 THEN continue_session
                    ELSE IF result = -1 THEN FALSE
                    ELSE IF eof THEN FALSE ELSE continue_session
       IN  /\ line_kind' = line.kind
           /\ answer_result' = result
           /\ feof_stdin' = eof
           /\ correct' = (result = 1 /\ is_correct)
           /\ stats' = IF result = 1 THEN update_stats(stats, question, is_correct) ELSE stats
           /\ continue_session' = go_on
           /\ pc' = IF go_on THEN "generate" ELSE "summary"
    /\ question' = ZeroQuestion
    /\ UNCHANGED << g_whole_numbers_mode, g_easy_mode, selection, parse_result,
                    questions_asked, user_answer, grade, summary_count >>

session_answer ==
    /\ pc = "prompt"
    /\ \E line \in AnswerLines(question) : AnswerPass(line)

\* run_practice_session lines 156-157: the summary is printed
session_summary ==
    /\ pc = "summary"
    /\ UNCHANGED << parse_input, picked_category >>
    /\ summary_count' = summary_count + 1
    /\ pc' = "return"
    /\ UNCHANGED << g_whole_numbers_mode, g_easy_mode, feof_stdin, selection, parse_result,
                    stats, continue_session, questions_asked, question, user_answer,
                    line_kind, answer_result, correct, grade >>

\* run_practice_session line 158: the session returns to the menu loop; its
\* locals (lines 105-108, 118, 131-134) end with it
session_return ==
    /\ pc = "return"
    /\ UNCHANGED << parse_input, picked_category >>
    /\ pc' = "menu"
    /\ stats' = ZeroStats
    /\ continue_session' = TRUE
    /\ questions_asked' = 0
    /\ question' = ZeroQuestion
    /\ line_kind' = "none"
    /\ answer_result' = 0
    /\ correct' = FALSE
    /\ UNCHANGED << g_whole_numbers_mode, g_easy_mode, feof_stdin, selection, parse_result,
                    user_answer, grade, summary_count >>

Next ==
    \/ \E option \in {"", "-w", "-e", "-h", "-v", "-x"} : main_args(option)
    \/ main_menu
    \/ session_generate
    \/ session_answer
    \/ session_summary
    \/ session_return

Spec == Init /\ [][Next]_vars

(* ------------------ the question engine and the grader ----------------- *)

\* QuestionSpec applies generate_question and check_answer as functions: the
\* difficulty mode is one main can set, the selection one parse_category_input
\* accepts, the draws and the answers range over their whole sets.

QuestionInit ==
    /\ pc = "engine"
    /\ \E option \in {"", "-w", "-e"} :
           /\ g_whole_numbers_mode = (option \in {"-w", "-e"})
           /\ g_easy_mode = (option = "-e")
    /\ \E input \in StringsUpTo(MaxInputLen) \cup {All} :
           /\ parse_category_input(input).result
           /\ selection = parse_category_input(input).selection
    /\ parse_result = TRUE
    /\ feof_stdin = FALSE
    /\ stats = ZeroStats
    /\ continue_session = TRUE
    /\ questions_asked = 0
    /\ question = ZeroQuestion
    /\ user_answer = Whole(0)
    /\ line_kind = "none"
    /\ answer_result = 0
    /\ correct = FALSE
    /\ grade = NoGrade
    /\ summary_count = 0
    /\ parse_input = << >>
    /\ picked_category = CATEGORY_COUNT

\* question_t question = generate_question(selection)
question_generate ==
    /\ pc = "engine"
    /\ UNCHANGED << parse_input, picked_category >>
    /\ \E q \in GeneratedQuestions(selection) : question' = q
    /\ pc' = "asked"
    /\ UNCHANGED << g_whole_numbers_mode, g_easy_mode, feof_stdin, selection, parse_result,
                    stats, continue_session, questions_asked, user_answer, line_kind,
                    answer_result, correct, grade, summary_count >>

\* the answers graded in QuestionSpec: those of UserAnswers and answers off by
\* 5, 10, 30, 50, 70, 90 and 110 percent of the correct answer
GradedAnswers(q) ==
    UserAnswers(q)
    \cup {RAdd(q.correct_answer, RDiv(RMul(q.correct_answer, Whole(p)), Whole(100))) :
              p \in {5, 10, 30, 50, 70, 90, 110}}

\* bool correct = check_answer(&question, user_answer)
question_grade ==
    /\ pc = "asked"
    /\ UNCHANGED << parse_input, picked_category >>
    /\ \E answer \in GradedAnswers(question) :
           /\ user_answer' = answer
           /\ grade' = check_answer(question, answer)
           /\ correct' = check_answer(question, answer).is_correct
    /\ pc' = "graded"
    /\ UNCHANGED << g_whole_numbers_mode, g_easy_mode, feof_stdin, selection, parse_result,
                    stats, continue_session, questions_asked, question, line_kind,
                    answer_result, summary_count >>

QuestionNext == question_generate \/ question_grade

QuestionSpec == QuestionInit /\ [][QuestionNext]_vars

(* ----------------------- the statistics aggregator --------------------- *)

\* StatsSpec applies update_stats to the statistics of a new session, for
\* questions of every category and both outcomes.

StatsInit ==
    /\ Init
    /\ pc = "start"

\* update_stats(&stats, &question, correct)
stats_record ==
    /\ pc \in {"start", "recorded"}
    /\ UNCHANGED << parse_input, picked_category >>
    /\ stats.total_questions < MaxRecorded
    /\ \E c \in Categories, ok \in BOOLEAN :
           /\ question' = [ZeroQuestion EXCEPT !.category = c]
           /\ correct' = ok
           /\ stats' = update_stats(stats, question', ok)
    /\ pc' = "recorded"
    /\ UNCHANGED << g_whole_numbers_mode, g_easy_mode, feof_stdin, selection, parse_result,
                    continue_session, questions_asked, user_answer, line_kind,
                    answer_result, grade, summary_count >>

StatsNext == stats_record

StatsSpec == StatsInit /\ [][StatsNext]_vars

(* --------------------------- the practice session ---------------------- *)

\* SessionSpec is run_practice_session called with any selection that
\* parse_category_input can leave, the empty one included, with the mode
\* flags as main.c initialises them.

SessionInit ==
    /\ pc = "generate"
    /\ g_whole_numbers_mode = FALSE
    /\ g_easy_mode = FALSE
    /\ \E input \in StringsUpTo(MaxInputLen) \cup {All} :
           /\ selection = parse_category_input(input).selection
           /\ parse_result = (selection.num_active > 0)
    /\ feof_stdin = FALSE
    /\ stats = ZeroStats
    /\ continue_session = TRUE
    /\ questions_asked = 0
    /\ question = ZeroQuestion
    /\ user_answer = Whole(0)
    /\ line_kind = "none"
    /\ answer_result = 0
    /\ correct = FALSE
    /\ grade = NoGrade
    /\ summary_count = 0
    /\ parse_input = << >>
    /\ picked_category = CATEGORY_COUNT

SessionNext ==
    \/ session_generate
    \/ session_answer
    \/ session_summary
    \/ session_return

SessionSpec == SessionInit /\ [][SessionNext]_vars

(* --------------------------- the category selector --------------------- *)

\* SelectorSpec applies parse_category_input to a string and
\* pick_random_category to the selection the call leaves, accepted or not.

\* the strings parsed: those of the menu alphabet, "all" and "abcd"
SelectorInputs ==
    StringsUpTo(MaxInputLen) \cup {All, << "a", "b", "c", "d" >>}

SelectorInit ==
    /\ pc = "selector"
    /\ parse_input \in SelectorInputs
    /\ picked_category = CATEGORY_COUNT
    /\ g_whole_numbers_mode = FALSE
    /\ g_easy_mode = FALSE
    /\ feof_stdin = FALSE
    /\ selection = init_categories
    /\ parse_result = FALSE
    /\ stats = ZeroStats
    /\ continue_session = TRUE
    /\ questions_asked = 0
    /\ question = ZeroQuestion
    /\ user_answer = Whole(0)
    /\ line_kind = "none"
    /\ answer_result = 0
    /\ correct = FALSE
    /\ grade = NoGrade
    /\ summary_count = 0

\* bool ok = parse_category_input(input, &selection)
selector_parse ==
    /\ pc = "selector"
    /\ selection' = parse_category_input(parse_input).selection
    /\ parse_result' = parse_category_input(parse_input).result
    /\ pc' = "parsed"
    /\ UNCHANGED << g_whole_numbers_mode, g_easy_mode, feof_stdin, stats, continue_session,
                    questions_asked, question, user_answer, line_kind, answer_result,
                    correct, grade, summary_count, parse_input, picked_category >>

\* category_t c = pick_random_category(&selection)
selector_pick ==
    /\ pc = "parsed"
    /\ \E rnd \in 0 .. RandMax : picked_category' = pick_random_category(selection, rnd)
    /\ pc' = "picked"
    /\ UNCHANGED << g_whole_numbers_mode, g_easy_mode, feof_stdin, selection, parse_result,
                    stats, continue_session, questions_asked, question, user_answer,
                    line_kind, answer_result, correct, grade, summary_count, parse_input >>

SelectorNext == selector_parse \/ selector_pick

SelectorSpec == SelectorInit /\ [][SelectorNext]_vars

(* ------------------------------ properties ---------------------------- *)

\* the conversions of the catalog of category c, as a set
ConversionsOf(c) ==
    {get_conversions_for_category(c)[i] : i \in 1 .. Len(get_conversions_for_category(c))}

\* the definition question q was generated from
DefinitionOf(q) ==
    CHOOSE conv \in ConversionsOf(q.category) :
        conv.from_unit = q.from_unit /\ conv.to_unit = q.to_unit

InRange(v, min, max) == RLeq(min, v) /\ RLeq(v, max)

\* C1: after parse_category_input has rejected the line typed at the menu, the
\* selection it leaves behind has no active category: every active flag is
\* false and num_active is 0, also when valid letters preceded the bad character.
C1_RejectedLeavesNothingActive ==
    (pc = "menu" /\ ~parse_result) =>
        /\ \A c \in Categories : ~selection.active[c]
        /\ selection.num_active = 0

\* C2: for every conversion of the catalog, every difficulty mode and every
\* random draw, generate_random_value returns a value between the minimum and
\* the maximum of the conversion, and so does the value of a generated question.
C2_ValueInRange ==
    /\ pc = "engine" =>
           \A c \in Categories : \A conv \in ConversionsOf(c) : \A r \in 0 .. RandMax :
               InRange(generate_random_value(g_whole_numbers_mode, g_easy_mode,
                                             conv.min_value, conv.max_value, r),
                       conv.min_value, conv.max_value)
    /\ pc = "asked" =>
           InRange(question.value, DefinitionOf(question).min_value,
                   DefinitionOf(question).max_value)

\* a question of easy mode whose draw was mapped to a multiple of 5 above the
\* maximum of its conversion and brought back into the range
C2_Witness ==
    /\ pc = "asked"
    /\ g_easy_mode
    /\ \E r \in 0 .. RandMax :
           LET conv == DefinitionOf(question)
               drawn == RAdd(conv.min_value,
                             RMul(Rat(r, RandMax), RSub(conv.max_value, conv.min_value)))
               whole == WholeNumbersStep(g_whole_numbers_mode, drawn,
                                         conv.min_value, conv.max_value)
           IN  /\ RLess(conv.max_value, EasyMap(whole, conv.min_value))
               /\ question.value = round_to_precision(
                      generate_random_value(g_whole_numbers_mode, g_easy_mode,
                                            conv.min_value, conv.max_value, r), 1)

IsOneOrMultipleOf5(v) == v.d = 1 /\ (v.n = 1 \/ (v.n > 0 /\ v.n % 5 = 0))

\* C3: in easy mode (both mode flags set), for every conversion of the catalog
\* and every random draw, generate_random_value returns exactly 1 or a positive
\* multiple of 5, and so the value of every generated question is one of these.
C3_EasyValues ==
    (g_easy_mode /\ g_whole_numbers_mode) =>
        /\ pc = "engine" =>
               \A c \in Categories : \A conv \in ConversionsOf(c) : \A r \in 0 .. RandMax :
                   IsOneOrMultipleOf5(generate_random_value(TRUE, TRUE, conv.min_value,
                                                            conv.max_value, r))
        /\ pc = "asked" => IsOneOrMultipleOf5(question.value)

\* an easy-mode question on a range that starts below zero, where the draw
\* collapsed to 1
C3_Witness ==
    /\ pc = "asked"
    /\ g_easy_mode /\ g_whole_numbers_mode
    /\ RLess(DefinitionOf(question).min_value, Whole(0))
    /\ question.value = Whole(1)

\* user_answer lies within the tolerance of the correct answer, both ways
WithinTolerance ==
    LET d == RSub(user_answer, question.correct_answer)
    IN  RLeq(RNeg(question.tolerance), d) /\ RLeq(d, question.tolerance)

\* C4: check_answer returns true exactly when the distance between the answer
\* and the correct answer is at most the tolerance; the correct answer itself
\* is graded correct, and so is an answer at distance exactly the tolerance.
C4_CorrectIffWithinTolerance ==
    pc = "graded" =>
        /\ grade.is_correct <=> WithinTolerance
        /\ correct = grade.is_correct
        /\ user_answer = question.correct_answer => grade.is_correct
        /\ user_answer = RAdd(question.correct_answer, question.tolerance) => grade.is_correct
        /\ user_answer = RSub(question.correct_answer, question.tolerance) => grade.is_correct

\* an answer off by exactly the tolerance graded correct, next to which an
\* answer a little further off exists
C4_Witness ==
    /\ pc = "graded"
    /\ user_answer = RAdd(question.correct_answer, question.tolerance)
    /\ user_answer # question.correct_answer
    /\ grade.is_correct

\* C5: when the correct answer of the question is exactly 0, grading does not
\* divide by it: the percent error it computes is a finite number, neither an
\* infinity nor a NaN.
C5_ZeroAnswerNoDivision ==
    (pc = "graded" /\ question.correct_answer = Whole(0)) => grade.percent_error.d # 0

\* C6: during a session the statistics change only when a question is answered
\* with a number, and then by one recorded question: update_stats is applied
\* once with the outcome of check_answer; a line that is skip, quit, exit,
\* empty, invalid, too long or the end of input leaves every counter unchanged,
\* and so do generating a question and printing the summary.
C6_StatsOncePerGradedQuestion ==
    [][ /\ (pc = "prompt" /\ line_kind' = "number") =>
               /\ answer_result' = 1
               /\ stats' = update_stats(stats, question, correct')
               /\ stats'.total_questions = stats.total_questions + 1
               /\ stats'.category_totals[question.category]
                      = stats.category_totals[question.category] + 1
        /\ (pc = "prompt" /\ line_kind' # "number") => stats' = stats
        /\ pc \in {"generate", "summary"} => stats' = stats
      ]_vars

\* a session of two questions, the first answered with a number and the second
\* skipped: one question is recorded
C6_Witness ==
    /\ pc = "generate"
    /\ questions_asked = 2
    /\ line_kind = "skip"
    /\ stats.total_questions = 1

\* the outcome of one call of update_stats
StatsStep ==
    LET c == question'.category
        one == IF correct' THEN 1 ELSE 0
    IN  /\ stats'.total_questions = stats.total_questions + 1
        /\ stats'.category_totals[c] = stats.category_totals[c] + 1
        /\ stats'.correct_answers = stats.correct_answers + one
        /\ stats'.category_correct[c] = stats.category_correct[c] + one
        /\ \A other \in Categories \ {c} :
               /\ stats'.category_totals[other] = stats.category_totals[other]
               /\ stats'.category_correct[other] = stats.category_correct[other]

\* 3 Distance questions (2 correct) and 1 Weight question (correct)
ScenarioStats ==
    [total_questions |-> 4, correct_answers |-> 3,
     category_totals |-> [i \in Categories |->
                              IF i = CATEGORY_DISTANCE THEN 3
                              ELSE IF i = CATEGORY_WEIGHT THEN 1 ELSE 0],
     category_correct |-> [i \in Categories |->
                               IF i = CATEGORY_DISTANCE THEN 2
                               ELSE IF i = CATEGORY_WEIGHT THEN 1 ELSE 0]]

\* update_stats applied to the questions of the scenario, in the order asked
ScenarioRun ==
    LET distance == [ZeroQuestion EXCEPT !.category = CATEGORY_DISTANCE]
        weight == [ZeroQuestion EXCEPT !.category = CATEGORY_WEIGHT]
    IN  update_stats(
            update_stats(
                update_stats(
                    update_stats(ZeroStats, distance, TRUE),
                    distance, FALSE),
                distance, TRUE),
            weight, TRUE)

\* C7: update_stats adds 1 to total_questions and to the total of the category
\* of the question, adds 1 to correct_answers and to the correct count of that
\* category when the answer was correct and 0 otherwise, and leaves the counters
\* of every other category alone; 3 Distance questions (2 correct) and 1 correct
\* Weight question give 3 of 4 overall, Distance 2 of 3, Weight 1 of 1, and 0 of
\* 0 for Temperature and Volume.
C7_UpdateStatsIncrements ==
    [][ StatsStep /\ ScenarioRun = ScenarioStats ]_vars

\* the counters of the scenario, reached by recording its four questions
C7_Witness ==
    /\ pc = "recorded"
    /\ stats = ScenarioStats

ActiveSet(sel) == {c \in Categories : sel.active[c]}

\* C8: for an accepted selection, the categories pick_random_category can
\* return over all draws are exactly the active ones, and the category of every
\* generated question is active in the selection.
C8_CategoryIsActive ==
    /\ pc = "engine" =>
           {pick_random_category(selection, r) : r \in 0 .. RandMax} = ActiveSet(selection)
    /\ pc \in {"asked", "graded"} => question.category \in ActiveSet(selection)

\* a Temperature question under the selection "ac"
C8_Witness ==
    /\ pc = "asked"
    /\ ActiveSet(selection) = {CATEGORY_DISTANCE, CATEGORY_TEMPERATURE}
    /\ question.category = CATEGORY_TEMPERATURE

\* the line just read at the prompt ends the session: quit, exit, or no number
\* with stdin at end of file
EndOfSessionLine ==
    \/ line_kind' \in {"quit", "exit", "eof"}
    \/ line_kind' # "number" /\ feof_stdin'

\* C9 (as amended): once the prompt returns quit or exit, or returns without a
\* number while stdin is at end of file, the session generates, grades and
\* records nothing more: the next step prints the summary, once, and the step
\* after it returns to the menu; both steps can always be taken.
C9_SessionEndsAtPrompt ==
    [][ /\ (pc = "prompt" /\ EndOfSessionLine) =>
               /\ pc' = "summary"
               /\ stats' = stats
               /\ questions_asked' = questions_asked
               /\ summary_count' = 0
        /\ pc = "summary" =>
               /\ ENABLED session_summary
               /\ pc' = "return"
               /\ summary_count = 0 /\ summary_count' = 1
               /\ stats' = stats
               /\ questions_asked' = questions_asked
        /\ pc = "return" =>
               /\ ENABLED session_return
               /\ pc' = "menu"
               /\ summary_count' = summary_count
               /\ summary_count = 1
      ]_vars

\* a session ended by quit after one graded question, its summary printed
C9_Witness ==
    /\ pc = "return"
    /\ line_kind = "quit"
    /\ questions_asked = 2
    /\ stats.total_questions = 1
    /\ summary_count = 1

\* C9 (as stated): once the prompt has returned quit or exit, or stdin has
\* reached end of file, the session is not about to generate or ask a question.
C9_NoQuestionAfterEndOfFile ==
    (line_kind \in {"quit", "exit"} \/ feof_stdin) => pc \notin {"generate", "prompt"}

\* correct_answer x tolerance_percent / 100 for question q
PercentOfAnswer(q) ==
    RDiv(RMul(q.correct_answer, DefinitionOf(q).tolerance_percent), Whole(100))

\* C10: the tolerance of a generated question is its correct answer times the
\* tolerance percentage of its definition over 100 when that is at least 0.1,
\* and exactly 0.1 when that is below 0.1; it is never below 0.1.
C10_ToleranceFloor ==
    pc = "asked" =>
        /\ RLeq(Rat(1, 10), PercentOfAnswer(question)) =>
               question.tolerance = PercentOfAnswer(question)
        /\ RLess(PercentOfAnswer(question), Rat(1, 10)) =>
               question.tolerance = Rat(1, 10)
        /\ RLeq(Rat(1, 10), question.tolerance)

\* a question with a positive answer whose percentage is below 0.1
C10_Witness ==
    /\ pc = "asked"
    /\ RLess(Whole(0), question.correct_answer)
    /\ RLess(PercentOfAnswer(question), Rat(1, 10))
    /\ question.tolerance = Rat(1, 10)

\* |user_answer - correct_answer| / correct_answer x 100 of the graded answer
PercentErrorOfAnswer ==
    LET d == RSub(user_answer, question.correct_answer)
        distance == IF RLess(d, Whole(0)) THEN RNeg(d) ELSE d
    IN  RDiv(RMul(distance, Whole(100)), question.correct_answer)

\* C11: for an answer graded incorrect, with percent_error the distance to the
\* correct answer over the correct answer times 100: below 10 the feedback is
\* "very close", from 10 to below 50 "right ballpark", above 90 and below 110
\* the hint at an inverted direction, and the generic message for everything
\* else; inside the inversion band no other band is chosen.
C11_FeedbackBands ==
    (pc = "graded" /\ ~grade.is_correct /\ question.correct_answer # Whole(0)) =>
        LET pe == PercentErrorOfAnswer
        IN  /\ grade.percent_error = pe
            /\ RLess(pe, Whole(10)) => grade.feedback = "very close"
            /\ (RLeq(Whole(10), pe) /\ RLess(pe, Whole(50))) =>
                   grade.feedback = "right ballpark"
            /\ (RLess(Whole(90), pe) /\ RLess(pe, Whole(110))) =>
                   grade.feedback = "wrong direction"
            /\ ((RLeq(Whole(50), pe) /\ RLeq(pe, Whole(90))) \/ RLeq(Whole(110), pe)) =>
                   grade.feedback = "quite different"

\* an incorrect answer twice the correct one: percent error 100, inversion hint
C11_Witness ==
    /\ pc = "graded"
    /\ ~grade.is_correct
    /\ grade.percent_error = Whole(100)
    /\ grade.feedback = "wrong direction"

\* C12: pick_random_category called on a selection with no active category
\* does not return a usable category: in particular not Distance, the default.
C12_NoFallbackCategory ==
    (pc = "picked" /\ selection.num_active = 0) => picked_category \notin Categories

\* the sentinel question of an empty selection
NoCategoriesQuestion == [ZeroQuestion EXCEPT !.question_text = NoCategoriesText]

\* C13: generate_question on an empty selection returns, for all rand() values,
\* the sentinel question: the error text and no category, units, value, answer
\* or tolerance; the session loop that gets it asks for no answer, grades and
\* records nothing, and goes on to print the summary, once, and return.
C13_SentinelEndsSession ==
    [][ /\ (pc = "generate" /\ selection.num_active = 0) =>
               /\ GeneratedQuestions(selection) = {NoCategoriesQuestion}
               /\ \A r1, r2, r3 \in {0, 1, RandMax} :
                      generate_question(selection, r1, r2, r3) = NoCategoriesQuestion
               /\ question' = NoCategoriesQuestion
               /\ pc' = "summary"
               /\ stats' = ZeroStats /\ stats = ZeroStats
               /\ questions_asked' = 0
               /\ line_kind' = "none" /\ answer_result' = 0
        /\ (pc = "summary" /\ question = NoCategoriesQuestion) =>
               /\ ENABLED session_summary
               /\ pc' = "return"
               /\ summary_count = 0 /\ summary_count' = 1
               /\ stats' = ZeroStats
        /\ (pc = "return" /\ question = NoCategoriesQuestion) =>
               /\ ENABLED session_return
               /\ pc' = "menu"
      ]_vars

\* the session of an empty selection after its summary
C13_Witness ==
    /\ pc = "return"
    /\ selection.num_active = 0
    /\ question = NoCategoriesQuestion
    /\ questions_asked = 0
    /\ stats = ZeroStats
    /\ summary_count = 1

\* the characters of a string, and the category each letter selects
Letters(input) == {input[i] : i \in 1 .. Len(input)}

CategoryLetters == {"a", "b", "c", "d"}

LetterOf(c) ==
    CASE c = CATEGORY_DISTANCE -> "a"
      [] c = CATEGORY_WEIGHT -> "b"
      [] c = CATEGORY_TEMPERATURE -> "c"
      [] c = CATEGORY_VOLUME -> "d"

\* C14: for a string over a, b, c, d the selection parse_category_input leaves
\* depends only on the set of letters in it: every other such string with the
\* same letters, in any order and with any repetition, gives the same result
\* and the same selection; and whatever the string, num_active is the number
\* of active flags.
C14_ParseDependsOnLetterSet ==
    pc = "parsed" =>
        /\ selection.num_active = Cardinality(ActiveSet(selection))
        /\ (parse_input # << >> /\ Letters(parse_input) \subseteq CategoryLetters) =>
               \A other \in SelectorInputs :
                   Letters(other) = Letters(parse_input) =>
                       /\ parse_category_input(other).selection = selection
                       /\ parse_category_input(other).result = parse_result

\* "aa" parsed: accepted, Distance alone active, counted once
C14_Witness ==
    /\ pc = "parsed"
    /\ parse_input = << "a", "a" >>
    /\ parse_result
    /\ ActiveSet(selection) = {CATEGORY_DISTANCE}
    /\ selection.num_active = 1

\* C15: parse_category_input accepts the string "all" and the non-empty
\* strings made of the letters a, b, c, d only, and nothing else; "all" leaves
\* all four categories active with num_active = CATEGORY_COUNT, any other
\* accepted string leaves active exactly the categories whose letter is in it.
C15_AcceptedInputs ==
    pc = "parsed" =>
        /\ parse_result <=>
               \/ parse_input = All
               \/ parse_input # << >> /\ Letters(parse_input) \subseteq CategoryLetters
        /\ (parse_result /\ parse_input = All) =>
               /\ ActiveSet(selection) = Categories
               /\ selection.num_active = CATEGORY_COUNT
        /\ (parse_result /\ parse_input # All) =>
               /\ \A c \in Categories :
                      selection.active[c] <=> LetterOf(c) \in Letters(parse_input)
               /\ selection.num_active = Cardinality(Letters(parse_input))

\* "cab" parsed: accepted, Volume alone inactive
C15_Witness ==
    /\ pc = "parsed"
    /\ parse_input = << "c", "a", "b" >>
    /\ parse_result
    /\ ActiveSet(selection) = Categories \ {CATEGORY_VOLUME}

\* the conversion of q is between units u and v, in either direction
Between(q, u, v) ==
    \/ q.from_unit = u /\ q.to_unit = v
    \/ q.from_unit = v /\ q.to_unit = u

HasRange(conv, min, max) == conv.min_value = Whole(min) /\ conv.max_value = Whole(max)

\* C16: the definition a question is generated from has min <= max, and
\* carries tolerance 2% for miles and kilometers, with range 1-100 from miles
\* and 1-160 from kilometers, 1.5% for inches and centimeters, 2% for
\* Fahrenheit and Celsius, 1% for Celsius and Kelvin, 1.5% for cups and
\* milliliters.
C16_CatalogValues ==
    pc = "asked" =>
        LET conv == DefinitionOf(question)
        IN  /\ RLeq(conv.min_value, conv.max_value)
            /\ Between(question, "miles", "kilometers") =>
                   /\ conv.tolerance_percent = Whole(2)
                   /\ question.from_unit = "miles" => HasRange(conv, 1, 100)
                   /\ question.from_unit = "kilometers" => HasRange(conv, 1, 160)
            /\ Between(question, "inches", "centimeters") =>
                   conv.tolerance_percent = Rat(15, 10)
            /\ Between(question, "degrees Fahrenheit", "degrees Celsius") =>
                   conv.tolerance_percent = Whole(2)
            /\ Between(question, "degrees Celsius", "Kelvin") =>
                   conv.tolerance_percent = Whole(1)
            /\ Between(question, "cups", "milliliters") =>
                   conv.tolerance_percent = Rat(15, 10)

\* y has at most k decimal places and is a nearest such number to x
IsRounded(x, y, k) ==
    LET unit == Whole(Pow10(k))
        d == RSub(y, x)
        distance == IF RLess(d, Whole(0)) THEN RNeg(d) ELSE d
    IN  /\ RMul(y, unit).d = 1
        /\ RLeq(RMul(distance, RMul(Whole(2), unit)), Whole(1))

\* C17: the value of a generated question is a drawn value rounded to 1
\* decimal place, and its correct answer is the conversion function of its
\* definition applied to that rounded value, rounded to 2 decimal places;
\* 10.0 miles gives 16.09 kilometers.
C17_AnswerFromRoundedValue ==
    pc = "asked" =>
        LET conv == DefinitionOf(question)
        IN  /\ \E r \in 0 .. RandMax :
                   IsRounded(generate_random_value(g_whole_numbers_mode, g_easy_mode,
                                                   conv.min_value, conv.max_value, r),
                             question.value, 1)
            /\ IsRounded(convert_func(conv, question.value), question.correct_answer, 2)
            /\ (question.from_unit = "miles" /\ question.value = Whole(10)) =>
                   question.correct_answer = Rat(1609, 100)

\* the question 10.0 miles to kilometers
C17_Witness ==
    /\ pc = "asked"
    /\ question.from_unit = "miles"
    /\ question.value = Whole(10)
    /\ question.correct_answer = Rat(1609, 100)

\* x rounded to the nearest integer, halves away from zero
Nearest(x) ==
    IF RLess(x, Whole(0))
    THEN 0 - Floor(RAdd(RNeg(x), Rat(1, 2)))
    ELSE Floor(RAdd(x, Rat(1, 2)))

\* v is an integer between min and max rounded, and inside [min, max]
IsWholeInRange(v, min, max) ==
    /\ v.d = 1
    /\ Nearest(min) <= v.n /\ v.n <= Nearest(max)
    /\ InRange(v, min, max)

\* C18: in whole-numbers mode without easy mode, for every conversion of the
\* catalog and every draw, generate_random_value returns an integer between
\* the rounded minimum and the rounded maximum that lies in the declared
\* range; for cups (0.5 to 8) the smallest value is 1.
C18_WholeValuesInRange ==
    (g_whole_numbers_mode /\ ~g_easy_mode) =>
        /\ pc = "engine" =>
               \A c \in Categories : \A conv \in ConversionsOf(c) : \A r \in 0 .. RandMax :
                   LET v == generate_random_value(TRUE, FALSE, conv.min_value,
                                                  conv.max_value, r)
                   IN  /\ IsWholeInRange(v, conv.min_value, conv.max_value)
                       /\ conv.from_unit = "cups" => RLeq(Whole(1), v)
        /\ pc = "asked" =>
               /\ IsWholeInRange(question.value, DefinitionOf(question).min_value,
                                 DefinitionOf(question).max_value)
               /\ question.from_unit = "cups" => RLeq(Whole(1), question.value)

\* a whole-numbers question of 1 cup, the draw 0.5 rounded up
C18_Witness ==
    /\ pc = "asked"
    /\ g_whole_numbers_mode /\ ~g_easy_mode
    /\ question.from_unit = "cups"
    /\ question.value = Whole(1)
    /\ generate_random_value(TRUE, FALSE, Rat(1, 2), Whole(8), 0) = Whole(1)

\* C19: the summary of a session with no recorded question reports that there
\* is no data and computes no percentage, overall or per category; otherwise
\* it computes the overall percentage and a percentage for exactly the
\* categories with at least one recorded question, each a finite number.
C19_SummaryGuardsDivision ==
    pc = "summary" =>
        LET out == print_session_summary(stats)
        IN  /\ stats.total_questions = 0 =>
                   /\ out.no_data
                   /\ out.overall = << >>
                   /\ DOMAIN out.breakdown = {}
            /\ stats.total_questions > 0 =>
                   /\ ~out.no_data
                   /\ Len(out.overall) = 1
                   /\ out.overall[1].d # 0
                   /\ RMul(out.overall[1], Whole(stats.total_questions))
                          = Whole(100 * stats.correct_answers)
                   /\ DOMAIN out.breakdown
                          = {c \in Categories : stats.category_totals[c] >= 1}
                   /\ \A c \in DOMAIN out.breakdown :
                          /\ out.breakdown[c].d # 0
                          /\ RMul(out.breakdown[c], Whole(stats.category_totals[c]))
                                 = Whole(100 * stats.category_correct[c])

\* the summary printed for a session of two questions, both skipped
C19_Witness ==
    /\ pc = "return"
    /\ summary_count = 1
    /\ questions_asked = 2
    /\ stats.total_questions = 0
    /\ print_session_summary(stats).no_data

\* the sum of a counter over the four categories
CategorySum(counts) ==
    counts[CATEGORY_DISTANCE] + counts[CATEGORY_WEIGHT]
        + counts[CATEGORY_TEMPERATURE] + counts[CATEGORY_VOLUME]

\* C20: in every state, whatever questions were answered, skipped or invalid,
\* 0 <= correct_answers <= total_questions, 0 <= category_correct[c] <=
\* category_totals[c] for every category, the category totals add up to
\* total_questions, the category correct counts add up to correct_answers,
\* and a category that is not active in the selection has a total of 0.
C20_StatsConsistent ==
    /\ 0 <= stats.correct_answers
    /\ stats.correct_answers <= stats.total_questions
    /\ \A c \in Categories :
           /\ 0 <= stats.category_correct[c]
           /\ stats.category_correct[c] <= stats.category_totals[c]
           /\ ~selection.active[c] => stats.category_totals[c] = 0
    /\ CategorySum(stats.category_totals) = stats.total_questions
    /\ CategorySum(stats.category_correct) = stats.correct_answers

\* two questions recorded, one of them correct, in a running session where
\* some category is not active
C20_Witness ==
    /\ pc = "generate"
    /\ stats.total_questions = 2
    /\ stats.correct_answers = 1
    /\ \E c \in Categories : ~selection.active[c]

\* C21: the tolerance of every generated question, also one whose correct
\* answer is negative, is at least the magnitude of the correct answer times
\* the tolerance percentage of its definition over 100.
C21_ToleranceScalesWithMagnitude ==
    pc = "asked" => RLeq(fabsf(PercentOfAnswer(question)), question.tolerance)

\* the distance between the submitted and the correct answer is below 10% of
\* the magnitude of the correct answer
WithinTenPercent ==
    RLess(RMul(fabsf(RSub(user_answer, question.correct_answer)), Whole(10)),
          fabsf(question.correct_answer))

\* C22: the percent error that chooses the feedback is never negative, and an
\* answer graded incorrect gets the "very close" feedback only when its
\* distance to the correct answer is below 10% of the magnitude of the correct
\* answer, also when the correct answer is negative.
C22_PercentErrorNotNegative ==
    pc = "graded" =>
        /\ grade.percent_error.n >= 0
        /\ (~grade.is_correct /\ grade.feedback = "very close") => WithinTenPercent

====
